---- MODULE Spec2Model ----
(***************************************************************************)
(* Model of src/content_generator.py: the post-creation pipeline of the    *)
(* AI-blog generator (create_post and its helpers).                        *)
(*                                                                         *)
(* Text is modelled at character level: a Python str is a sequence of      *)
(* Unicode code points, a bytes value a sequence of byte values.  A file   *)
(* store is a function from file names (strings) to contents.              *)
(***************************************************************************)
EXTENDS Integers, Sequences, FiniteSets, TLC

VARIABLES
    \* --- the world outside one process ---
    posts,        \* content/posts: file name -> text of the file
    imgs,         \* static/images/gallery: file name -> bytes of the file
    clock,        \* the UTC calendar day datetime.utcnow() falls on
    runs,         \* invocations of the script started so far
    max_runs,     \* invocations a behaviour may hold
    env,          \* "any": every outcome of the environment; "calm": the few below
    \* --- one invocation of the script (module globals and create_post locals) ---
    pc,           \* position of the run inside create_post
    OPENROUTER_API_KEY,  \* TRUE iff the environment variable is set (line 38)
    json_error_is_request_exception,  \* installed requests: r.json() failure class
    title, slug, today, filepath,
    existing, imgpath, ok,
    content, i,
    yaml_front, md,
    outcome,      \* "none" before the first run, then "running", "returned", "raised"
    \* --- observation of the run (not program state) ---
    log,          \* the externally visible operations of the run, in order
    last_status,  \* status of the latest reply of the text collaborator
    only_transport, \* no request of the run was answered: each raised in transport
    imgs_before,  \* the asset store when the run started
    posts_before, \* the content store when the run started
    picked_before,\* what the picked source image held when it was picked
    prev,         \* topic, date, path and outcome of the run before
    lacks_field,  \* the latest reply was a 200 whose JSON object holds no choice
    last_download,\* what happened to the latest image download of the run
    img_opened,   \* the gallery files the run opened for writing
    \* --- slugify applied to arbitrary titles (specification SlugSpec) ---
    s_title, s_maxlen, s_once, s_twice, s_pc,
    \* --- the front matter built for arbitrary titles (specification FrontSpec) ---
    f_title, f_now, f_image, f_front, f_pc

run_vars ==
    <<pc, OPENROUTER_API_KEY, json_error_is_request_exception, title, slug, today,
      filepath, existing, imgpath, ok, content, i, yaml_front, md, outcome>>
obs_vars == <<log, last_status, only_transport, imgs_before, posts_before, picked_before, prev,
             lacks_field, last_download, img_opened>>
io_vars == <<lacks_field, last_download, img_opened>>
world_vars == <<posts, imgs, clock, runs, max_runs, env>>
slug_vars == <<s_title, s_maxlen, s_once, s_twice, s_pc>>
front_vars == <<f_title, f_now, f_image, f_front, f_pc>>
vars == <<world_vars, run_vars, obs_vars, slug_vars, front_vars>>

-----------------------------------------------------------------------------
(* Bounds of the model.                                                    *)

\* Invocations of the script in one behaviour of RerunSpec.
MaxRuns == 2
\* Calendar days the clock can reach (days 1..MaxDay of January 2024).
MaxDay == 2
\* Topics of the catalog a run draws from: PROMPTS[1..NumTopics].
NumTopics == 2
\* Topics a run of RerunSpec draws from: PROMPTS[1..CalmTopics].
CalmTopics == 1
\* Longest arbitrary title handed to slugify in SlugSpec.
MaxTitleLen == 3

-----------------------------------------------------------------------------
(* Python values.                                                          *)

\* None, as a value no string, path or bytes value equals.
None == <<-1>>

Min(a, b) == IF a < b THEN a ELSE b

\* The catalog of topics (lines 22-31), as code points.
\* PROMPTS[0] = 'Обзор новой архитектуры нейросети'
PROMPT_1 ==
    <<1054, 1073, 1079, 1086, 1088, 32, 1085, 1086, 1074, 1086, 1081, 32, 1072, 1088, 1093,
      1080, 1090, 1077, 1082, 1090, 1091, 1088, 1099, 32, 1085, 1077, 1081, 1088, 1086, 1089,
      1077, 1090, 1080>>
\* PROMPTS[1] = 'Урок по использованию Python для ИИ'
PROMPT_2 ==
    <<1059, 1088, 1086, 1082, 32, 1087, 1086, 32, 1080, 1089, 1087, 1086, 1083, 1100, 1079,
      1086, 1074, 1072, 1085, 1080, 1102, 32, 80, 121, 116, 104, 111, 110, 32, 1076, 1083,
      1103, 32, 1048, 1048>>
\* PROMPTS[2] = 'Мастер-класс: генерация изображений нейросетями'
PROMPT_3 ==
    <<1052, 1072, 1089, 1090, 1077, 1088, 45, 1082, 1083, 1072, 1089, 1089, 58, 32, 1075,
      1077, 1085, 1077, 1088, 1072, 1094, 1080, 1103, 32, 1080, 1079, 1086, 1073, 1088, 1072,
      1078, 1077, 1085, 1080, 1081, 32, 1085, 1077, 1081, 1088, 1086, 1089, 1077, 1090, 1103,
      1084, 1080>>
\* PROMPTS[3] = 'Будущее высоких технологий'
PROMPT_4 ==
    <<1041, 1091, 1076, 1091, 1097, 1077, 1077, 32, 1074, 1099, 1089, 1086, 1082, 1080, 1093,
      32, 1090, 1077, 1093, 1085, 1086, 1083, 1086, 1075, 1080, 1081>>
\* PROMPTS[4] = 'Нейросети в медицине'
PROMPT_5 ==
    <<1053, 1077, 1081, 1088, 1086, 1089, 1077, 1090, 1080, 32, 1074, 32, 1084, 1077, 1076,
      1080, 1094, 1080, 1085, 1077>>
\* PROMPTS[5] = 'ИИ и кибербезопасность'
PROMPT_6 ==
    <<1048, 1048, 32, 1080, 32, 1082, 1080, 1073, 1077, 1088, 1073, 1077, 1079, 1086, 1087,
      1072, 1089, 1085, 1086, 1089, 1090, 1100>>
\* PROMPTS[6] = 'Как работает обучение с подкреплением'
PROMPT_7 ==
    <<1050, 1072, 1082, 32, 1088, 1072, 1073, 1086, 1090, 1072, 1077, 1090, 32, 1086, 1073,
      1091, 1095, 1077, 1085, 1080, 1077, 32, 1089, 32, 1087, 1086, 1076, 1082, 1088, 1077,
      1087, 1083, 1077, 1085, 1080, 1077, 1084>>
\* PROMPTS[7] = 'Тенденции машинного обучения 2025'
PROMPT_8 ==
    <<1058, 1077, 1085, 1076, 1077, 1085, 1094, 1080, 1080, 32, 1084, 1072, 1096, 1080, 1085,
      1085, 1086, 1075, 1086, 32, 1086, 1073, 1091, 1095, 1077, 1085, 1080, 1103, 32, 50, 48,
      50, 53>>
PROMPTS ==
    <<PROMPT_1, PROMPT_2, PROMPT_3, PROMPT_4, PROMPT_5, PROMPT_6, PROMPT_7, PROMPT_8>>

-----------------------------------------------------------------------------
(* str operations used by the program.                                     *)

DASH == 45
NEWLINE == 10
SPACE == 32
QUOTE == 34
DOT == 46
SLASH == 47

\* str.lower() on one character: ASCII A-Z, Cyrillic capital letters.
LowerChar(c) ==
    IF c >= 65 /\ c <= 90 THEN c + 32
    ELSE IF c >= 1040 /\ c <= 1071 THEN c + 32
    ELSE IF c >= 1024 /\ c <= 1039 THEN c + 80
    ELSE c

lower(s) == [k \in 1..Len(s) |-> LowerChar(s[k])]

\* The characters the regex class \s and str.strip() treat as whitespace.
Whitespace ==
    {9, 10, 11, 12, 13, 28, 29, 30, 31, 32, 133, 160, 5760, 8232, 8233, 8239, 8287, 12288}
        \cup (8192..8202)

\* The complement of the class [^a-z0-9\-...] of line 45.
SlugChar(c) ==
    \/ c >= 97 /\ c <= 122
    \/ c >= 48 /\ c <= 57
    \/ c = DASH
    \/ c >= 1072 /\ c <= 1103
    \/ c = 1105

\* The concatenation of a sequence of strings.
RECURSIVE Flatten(_)
Flatten(pieces) ==
    IF pieces = <<>> THEN <<>>
    ELSE IF Len(pieces) = 1 THEN pieces[1]
    ELSE LET h == Len(pieces) \div 2
         IN  Flatten(SubSeq(pieces, 1, h)) \o Flatten(SubSeq(pieces, h + 1, Len(pieces)))

\* re.sub of a run pattern (class+ or class{2,}) by '-': every maximal run of
\* at least minrun characters of class becomes one '-'.  A character is in
\* such a run iff minrun consecutive characters of class include it; the
\* first character of the run yields the '-', the others nothing.
SubRuns(s, class, minrun) ==
    LET InClass(k) == k >= 1 /\ k <= Len(s) /\ s[k] \in class
        InRun(k) == \E a \in (k - minrun + 1)..k :
                        \A m \in a..(a + minrun - 1) : InClass(m)
        Piece(k) == IF InRun(k)
                    THEN (IF InClass(k - 1) THEN <<>> ELSE <<DASH>>)
                    ELSE <<s[k]>>
    IN  Flatten([k \in 1..Len(s) |-> Piece(k)])

\* re.sub(r'[^a-z0-9\-...]', '-', s): every character outside the class becomes '-'.
SubNonSlug(s) == [k \in 1..Len(s) |-> IF SlugChar(s[k]) THEN s[k] ELSE DASH]

\* str.strip(chars): drop the characters of class from both ends.
strip(s, class) ==
    LET kept == {k \in 1..Len(s) : s[k] \notin class}
    IN  IF kept = {} THEN <<>>
        ELSE SubSeq(s, CHOOSE k \in kept : \A m \in kept : k <= m,
                       CHOOSE k \in kept : \A m \in kept : k >= m)

\* s[:n] for n >= 0.
Prefix(s, n) == SubSeq(s, 1, Min(n, Len(s)))

\* sep.join(parts)
join(sep, parts) ==
    Flatten([k \in 1..Len(parts) |-> IF k = 1 THEN parts[k] ELSE sep \o parts[k]])

\* str.replace(old, new) for a one-character old.
replace(s, old, new) ==
    Flatten([k \in 1..Len(s) |-> IF s[k] = old THEN new ELSE <<s[k]>>])

\* needle in s (substring test).
Contains(s, needle) ==
    \E k \in 0..(Len(s) - Len(needle)) : SubSeq(s, k + 1, k + Len(needle)) = needle

StartsWith(s, p) == Len(s) >= Len(p) /\ SubSeq(s, 1, Len(p)) = p

-----------------------------------------------------------------------------
(* slugify (lines 41-48).                                                  *)

\* The default of the maxlen parameter.
DefaultMaxLen == 60

slugify(text, maxlen) ==
    LET t1 == lower(text)
        t2 == SubRuns(t1, Whitespace, 1)
        t3 == SubNonSlug(t2)
        t4 == SubRuns(t3, {DASH}, 2)
        t5 == strip(t4, {DASH})
    IN  Prefix(t5, maxlen)

-----------------------------------------------------------------------------
(* Paths, dates and the initial asset store.                               *)

\* 'content/posts'
POSTS_DIR == <<99, 111, 110, 116, 101, 110, 116, 47, 112, 111, 115, 116, 115>>
\* 'static/images/gallery'
IMG_DIR ==
    <<115, 116, 97, 116, 105, 99, 47, 105, 109, 97, 103, 101, 115, 47, 103, 97, 108, 108, 101,
      114, 121>>
\* '.md'
EXT_MD == <<46, 109, 100>>
\* '.png'
EXT_PNG == <<46, 112, 110, 103>>
\* '---'
FENCE == <<45, 45, 45>>
\* '---\n'
FENCE_NL == <<45, 45, 45, 10>>
\* 'title: "'
TITLE_KEY == <<116, 105, 116, 108, 101, 58, 32, 34>>
\* 'date: "'
DATE_KEY == <<100, 97, 116, 101, 58, 32, 34>>
\* 'Z"'
DATE_END == <<90, 34>>
\* 'draft: false'
DRAFT_LINE == <<100, 114, 97, 102, 116, 58, 32, 102, 97, 108, 115, 101>>
\* 'image: "'
IMAGE_KEY == <<105, 109, 97, 103, 101, 58, 32, 34>>
\* '\"'
ESCAPED_QUOTE == <<92, 34>>
\* '2024-01-'
YEAR_MONTH == <<50, 48, 50, 52, 45, 48, 49, 45>>
\* 'T00:00:00'
MIDNIGHT == <<84, 48, 48, 58, 48, 48, 58, 48, 48>>

\* datetime.strftime("%Y-%m-%d") of a day of January 2024.
FormatDate(day) == YEAR_MONTH \o <<48 + (day \div 10), 48 + (day % 10)>>

\* datetime.isoformat(); the clock has day resolution, so every instant read is
\* the midnight that starts its day.
isoformat(day) == FormatDate(day) \o MIDNIGHT

\* dir / name
PathJoin(dir, name) == dir \o <<SLASH>> \o name

\* str.rfind(c) + 1: the index of the last occurrence of c in s, 0 when there
\* is none.
LastIndex(s, c) ==
    LET at == {k \in 1..Len(s) : s[k] = c}
    IN  IF at = {} THEN 0 ELSE CHOOSE k \in at : \A m \in at : k >= m

\* Path.name and Path.suffix (pathlib): the extension of the final component.
PathName(path) == SubSeq(path, LastIndex(path, SLASH) + 1, Len(path))

PathSuffix(path) ==
    LET name == PathName(path)
        k == LastIndex(name, DOT)
    IN  IF k > 1 /\ k < Len(name) THEN SubSeq(name, k, Len(name)) ELSE <<>>

\* An image left in the gallery by earlier use of the site: 'old.jpg'.
SEED_IMAGE == PathJoin(IMG_DIR, <<111, 108, 100, 46, 106, 112, 103>>)
SEED_BYTES == <<255, 216>>
\* The bodies the image collaborator can answer a successful GET with.
ImageBodies == {<<>>, <<137, 80>>}

\* The asset stores a behaviour can start from: empty, or holding the seed.
InitialStores == {<<>>, SEED_IMAGE :> SEED_BYTES}

\* The store with path holding data.
Stored(store, path, data) ==
    [p \in DOMAIN store \cup {path} |-> IF p = path THEN data ELSE store[p]]

-----------------------------------------------------------------------------
(* download_random_image (lines 54-65).                                    *)

\* What can happen to one download: the GET raises, the status is an error
\* (raise_for_status raises), the destination cannot be opened, the write
\* fails after the destination was opened, or all of it succeeds.
DownloadEvents ==
    {[kind |-> k, body |-> <<>>] :
        k \in {"get_raises", "error_status", "open_fails", "write_fails"}}
    \cup {[kind |-> "ok", body |-> b] : b \in ImageBodies}

\* In the calm environment the GET raises or succeeds with a non-empty body.
DownloadEventsIn(e) ==
    IF e = "any" THEN DownloadEvents
    ELSE {ev \in DownloadEvents : ev.kind = "get_raises" \/ ev.body # <<>>}

\* No download was attempted yet.
NoDownload == [kind |-> "none", body |-> <<>>]

\* Line 60: whether the download got as far as opening dest for writing.
download_opens(ev) == ev.kind \in {"write_fails", "ok"}

\* The result of download_random_image(dest) and the asset store it leaves.
download_random_image(store, dest, ev) ==
    CASE ev.kind \in {"get_raises", "error_status", "open_fails"} ->
            [ret |-> FALSE, store |-> store]
      [] ev.kind = "write_fails" ->
            [ret |-> FALSE, store |-> Stored(store, dest, <<>>)]
      [] OTHER ->
            [ret |-> TRUE, store |-> Stored(store, dest, ev.body)]

-----------------------------------------------------------------------------
(* The copy of the picked image (lines 132-137).                           *)

CopyEvents == {"ok", "open_src_fails", "open_dst_fails", "fails_after_open"}

CopyEventsIn(e) == IF e = "any" THEN CopyEvents ELSE {"ok", "open_dst_fails"}

\* Line 133: whether the copy got as far as opening imgpath for writing.
copy_opens(ev) == ev \in {"fails_after_open", "ok"}

\* open(existing, "rb") then open(imgpath, "wb"), which truncates imgpath, then
\* dst.write(src.read()): the read happens after the truncation.
copy_existing(store, src, dst, ev) ==
    LET opened == Stored(store, dst, <<>>)
    IN  CASE ev \in {"open_src_fails", "open_dst_fails"} ->
                [raised |-> TRUE, store |-> store]
          [] ev = "fails_after_open" ->
                [raised |-> TRUE, store |-> opened]
          [] OTHER ->
                [raised |-> FALSE, store |-> Stored(opened, dst, opened[src])]

-----------------------------------------------------------------------------
(* The text collaborator's replies, as requests.post and r.json() see them. *)

JNull == [t |-> "null", v |-> <<>>]
JStr(s) == [t |-> "str", v |-> s]
JList(xs) == [t |-> "list", v |-> xs]
JDict(f) == [t |-> "dict", v |-> f]
\* A body that is not JSON: r.json() raises.
NotJson == [t |-> "notjson", v |-> <<>>]

\* Texts a reply can carry: '', ' ', ' Hi\n'.
ReplyTexts == {<<>>, <<32>>, <<32, 72, 105, 10>>}

\* The first element of "choices" in a reply.
ReplyChoices ==
    {JDict([k \in {"message"} |-> JDict([c \in {"content"} |-> JStr(x)])]) :
        x \in ReplyTexts}
    \cup {JDict([k \in {"text"} |-> JStr(x)]) : x \in ReplyTexts}
    \cup {JDict([k \in {"message", "text"} |->
                    IF k = "message" THEN JStr(<<72>>) ELSE JStr(<<72, 105>>)]),
          JDict([k \in {"message"} |-> JDict(<<>>)]),
          JDict([k \in {"message"} |-> JDict([c \in {"content"} |-> JNull])]),
          JDict(<<>>),
          JStr(<<72, 105>>)}

ReplyBodies ==
    {NotJson, JNull, JList(<<>>),
     JDict([k \in {"error"} |-> JStr(<<72>>)]),
     JDict([k \in {"choices"} |-> JNull]),
     JDict([k \in {"choices"} |-> JList(<<>>)])}
    \cup {JDict([k \in {"choices"} |-> JList(<<ch>>)]) : ch \in ReplyChoices}

OK_STATUS == 200
ReplyStatuses == {200, 401, 402, 429, 500}
\* The statuses after which the loop breaks (line 100).
NonRetryable == {401, 402, 429}

\* The status recorded before any reply, and for a request that raised.
NoStatus == -1
TRANSPORT_FAILURE == 0

\* A request either raises a transport exception (no status) or is answered.
Replies ==
    {[exc |-> e, status |-> TRANSPORT_FAILURE, data |-> NotJson] : e \in {"ConnectionError", "Timeout"}}
    \cup {[exc |-> "none", status |-> s, data |-> d] :
            s \in ReplyStatuses, d \in ReplyBodies}

\* In the calm environment a request times out or is answered with a text.
RepliesIn(e) ==
    IF e = "any" THEN Replies
    ELSE {r \in Replies :
            \/ r.exc = "Timeout"
            \/ /\ r.status = OK_STATUS
               /\ r.data = JDict([k \in {"choices"} |-> JList(<<
                      JDict([m \in {"message"} |->
                          JDict([c \in {"content"} |-> JStr(<<32, 72, 105, 10>>)])])>>)])}

\* A reply with status 200 whose JSON object has no "choices" key, or an
\* empty "choices" list (the condition of line 89 is false for both).
LacksChoices(reply) ==
    /\ reply.exc = "none"
    /\ reply.status = OK_STATUS
    /\ reply.data.t = "dict"
    /\ \/ "choices" \notin DOMAIN reply.data.v
       \/ reply.data.v["choices"] = JList(<<>>)

\* dict.get(key, default)
Get(d, key, default) == IF key \in DOMAIN d.v THEN d.v[key] ELSE default

\* bool(x) of a JSON value
Truthy(x) ==
    CASE x.t = "null" -> FALSE
      [] x.t = "dict" -> DOMAIN x.v # {}
      [] OTHER -> x.v # <<>>

\* Lines 91-95: the text of the first choice.  "return" carries the stripped
\* text; "error" is an exception that is no requests.RequestException.
first_choice_text(choice) ==
    IF choice.t # "dict" THEN [kind |-> "error", text |-> <<>>]
    ELSE LET message == Get(choice, "message", JNull)
             picked == IF message.t = "dict"
                       THEN Get(message, "content", JStr(<<>>))
                       ELSE Get(choice, "text", JStr(<<>>))
         IN  IF picked.t = "str"
             THEN [kind |-> "return", text |-> strip(picked.v, Whitespace)]
             ELSE [kind |-> "error", text |-> <<>>]

\* A loop that gives up on the first transport failure instead of retrying.
attempt_transport_breaks(reply, json_is_request_exc) ==
    IF reply.exc # "none" THEN [kind |-> "break", text |-> <<>>]
    ELSE IF reply.status = OK_STATUS /\ reply.data.t = "dict"
            /\ "choices" \in DOMAIN reply.data.v /\ Truthy(reply.data.v["choices"])
         THEN [kind |-> "return", text |-> <<72, 105>>]
    ELSE [kind |-> "break", text |-> <<>>]

\* One pass of the loop body, lines 86-103, for one reply: "return" (with the
\* text), "break", "retry" (fall through to the sleep of line 104) or "error"
\* (an exception the loop does not catch).  json_is_request_exc: whether the
\* installed requests raises its JSONDecodeError (a RequestException, from
\* requests 2.27 on) or a plain ValueError from r.json().
attempt(reply, json_is_request_exc) ==
    LET data == reply.data
        retry == [kind |-> "retry", text |-> <<>>]
        error == [kind |-> "error", text |-> <<>>]
    IN  IF reply.exc # "none" THEN retry
        ELSE IF data.t = "notjson" THEN (IF json_is_request_exc THEN retry ELSE error)
        ELSE IF reply.status = OK_STATUS /\ data.t \notin {"dict", "list"} THEN error
        ELSE IF /\ reply.status = OK_STATUS
                /\ data.t = "dict"
                /\ "choices" \in DOMAIN data.v
                /\ Truthy(data.v["choices"])
             THEN first_choice_text(data.v["choices"].v[1])
        ELSE IF reply.status \in NonRetryable
             THEN [kind |-> "break", text |-> <<>>]
        ELSE retry

\* The attempts parameter of generate_text_via_openrouter (line 72).
attempts == 3

-----------------------------------------------------------------------------
(* generate_text_local_fallback (lines 108-115).                           *)

\* 'В этой статье рассматривается «'
INTRO_HEAD ==
    <<1042, 32, 1101, 1090, 1086, 1081, 32, 1089, 1090, 1072, 1090, 1100, 1077, 32, 1088,
      1072, 1089, 1089, 1084, 1072, 1090, 1088, 1080, 1074, 1072, 1077, 1090, 1089, 1103, 32,
      171>>
\* '». Я опишу ключевые концепции, практические примеры и дам рекомендации.'
INTRO_TAIL ==
    <<187, 46, 32, 1071, 32, 1086, 1087, 1080, 1096, 1091, 32, 1082, 1083, 1102, 1095, 1077,
      1074, 1099, 1077, 32, 1082, 1086, 1085, 1094, 1077, 1087, 1094, 1080, 1080, 44, 32,
      1087, 1088, 1072, 1082, 1090, 1080, 1095, 1077, 1089, 1082, 1080, 1077, 32, 1087, 1088,
      1080, 1084, 1077, 1088, 1099, 32, 1080, 32, 1076, 1072, 1084, 32, 1088, 1077, 1082,
      1086, 1084, 1077, 1085, 1076, 1072, 1094, 1080, 1080, 46>>
\* '## Введение\n'
SECTION_INTRO == <<35, 35, 32, 1042, 1074, 1077, 1076, 1077, 1085, 1080, 1077, 10>>
\* '## Основные идеи\nЗдесь описаны основные подходы, архитектуры и ключевые понятия.'
SECTION_IDEAS ==
    <<35, 35, 32, 1054, 1089, 1085, 1086, 1074, 1085, 1099, 1077, 32, 1080, 1076, 1077, 1080,
      10, 1047, 1076, 1077, 1089, 1100, 32, 1086, 1087, 1080, 1089, 1072, 1085, 1099, 32,
      1086, 1089, 1085, 1086, 1074, 1085, 1099, 1077, 32, 1087, 1086, 1076, 1093, 1086, 1076,
      1099, 44, 32, 1072, 1088, 1093, 1080, 1090, 1077, 1082, 1090, 1091, 1088, 1099, 32,
      1080, 32, 1082, 1083, 1102, 1095, 1077, 1074, 1099, 1077, 32, 1087, 1086, 1085, 1103,
      1090, 1080, 1103, 46>>
\* '## Практическая часть\nПошаговый пример и рекомендации для внедрения.'
SECTION_PRACTICE ==
    <<35, 35, 32, 1055, 1088, 1072, 1082, 1090, 1080, 1095, 1077, 1089, 1082, 1072, 1103, 32,
      1095, 1072, 1089, 1090, 1100, 10, 1055, 1086, 1096, 1072, 1075, 1086, 1074, 1099, 1081,
      32, 1087, 1088, 1080, 1084, 1077, 1088, 32, 1080, 32, 1088, 1077, 1082, 1086, 1084,
      1077, 1085, 1076, 1072, 1094, 1080, 1080, 32, 1076, 1083, 1103, 32, 1074, 1085, 1077,
      1076, 1088, 1077, 1085, 1080, 1103, 46>>
\* '## Заключение\nКороткое резюме и направления для дальнейшего чтения.'
SECTION_END ==
    <<35, 35, 32, 1047, 1072, 1082, 1083, 1102, 1095, 1077, 1085, 1080, 1077, 10, 1050, 1086,
      1088, 1086, 1090, 1082, 1086, 1077, 32, 1088, 1077, 1079, 1102, 1084, 1077, 32, 1080,
      32, 1085, 1072, 1087, 1088, 1072, 1074, 1083, 1077, 1085, 1080, 1103, 32, 1076, 1083,
      1103, 32, 1076, 1072, 1083, 1100, 1085, 1077, 1081, 1096, 1077, 1075, 1086, 32, 1095,
      1090, 1077, 1085, 1080, 1103, 46>>

\* A template that never mentions the topic.
generate_text_local_fallback_no_topic(t) ==
    join(<<NEWLINE, NEWLINE>>,
         <<SECTION_INTRO \o INTRO_HEAD \o INTRO_TAIL, SECTION_IDEAS, SECTION_PRACTICE,
           SECTION_END>>)

generate_text_local_fallback(t) ==
    LET intro == INTRO_HEAD \o t \o INTRO_TAIL
        sections == <<SECTION_INTRO \o join(<<SPACE>>, <<intro, intro>>),
                      SECTION_IDEAS, SECTION_PRACTICE, SECTION_END>>
    IN  join(<<NEWLINE, NEWLINE>>, sections)

-----------------------------------------------------------------------------
(* The front matter and the document (lines 160-171).                      *)
(* Line 162 escapes the title inside an f-string expression that contains   *)
(* backslashes, which the Python grammar rejects; the title line is modelled *)
(* as the expression evidently intends: every double quote of the title      *)
(* becomes a backslash followed by a double quote, nothing else changes.     *)

build_yaml_front(t, now, image) ==
    LET head == <<FENCE,
                  TITLE_KEY \o replace(t, QUOTE, ESCAPED_QUOTE) \o <<QUOTE>>,
                  DATE_KEY \o isoformat(now) \o DATE_END,
                  DRAFT_LINE>>
        img == IF image # None
               THEN <<IMAGE_KEY \o <<SLASH>> \o image \o <<QUOTE>>>>
               ELSE <<>>
    IN  head \o img \o <<FENCE_NL>>

compose_md(front, body) == join(<<NEWLINE>>, front) \o body \o <<NEWLINE>>

-----------------------------------------------------------------------------
(* The run of the script: module import and create_post (lines 118-180).   *)

Logged(ev) == log' = Append(log, ev)

\* The process starts: the module is imported, which reads the credential
\* from the environment (line 38), and __main__ calls create_post.
StartRun ==
    /\ pc \in {"idle", "exit"}
    /\ runs < max_runs
    /\ runs' = runs + 1
    /\ OPENROUTER_API_KEY' \in BOOLEAN
    /\ json_error_is_request_exception' \in (IF env = "any" THEN BOOLEAN ELSE {TRUE})
    /\ title' = None /\ slug' = None /\ today' = None /\ filepath' = None
    /\ existing' = None /\ imgpath' = None /\ ok' = None
    /\ content' = None /\ i' = 0 /\ yaml_front' = None /\ md' = None
    /\ outcome' = "running"
    /\ pc' = "ensure_dirs"
    /\ log' = <<>> /\ last_status' = NoStatus /\ only_transport' = TRUE
    /\ imgs_before' = imgs /\ posts_before' = posts /\ picked_before' = None
    /\ lacks_field' = FALSE /\ last_download' = NoDownload /\ img_opened' = {}
    /\ prev' = [title |-> title, today |-> today, filepath |-> filepath,
                outcome |-> outcome]
    /\ UNCHANGED <<posts, imgs, clock, max_runs, env, slug_vars, front_vars>>

\* Line 119: ensure_dirs() creates the two directories, or raises.
EnsureDirs ==
    /\ pc = "ensure_dirs"
    /\ \/ pc' = "select" /\ outcome' = outcome /\ Logged("mkdirs_ok")
       \/ env = "any" /\ pc' = "exit" /\ outcome' = "raised" /\ Logged("mkdirs_failed")
    /\ UNCHANGED <<world_vars, OPENROUTER_API_KEY, json_error_is_request_exception,
                   title, slug, today, filepath, existing, imgpath, ok, content, i,
                   yaml_front, md, last_status, only_transport,
                   imgs_before, posts_before, picked_before,
                   prev, io_vars, slug_vars, front_vars>>

\* What random.choice(PROMPTS) can return: an index of the catalog; in the
\* calm environment one of its first CalmTopics entries.
TopicsIn(e) == 1..Min(IF e = "any" THEN NumTopics ELSE CalmTopics, Len(PROMPTS))

\* Lines 120-124: the topic, its slug, the date read from the clock, the path.
SelectTopic ==
    /\ pc = "select"
    /\ \E k \in TopicsIn(env) :
          LET t == PROMPTS[k]
              s == slugify(t, DefaultMaxLen)
              d == FormatDate(clock)
          IN  /\ title' = t
              /\ slug' = s
              /\ today' = d
              /\ filepath' = PathJoin(POSTS_DIR, d \o <<DASH>> \o s \o EXT_MD)
    /\ pc' = "pick"
    /\ UNCHANGED <<world_vars, OPENROUTER_API_KEY, json_error_is_request_exception,
                   existing, imgpath, ok, content, i, yaml_front, md, outcome,
                   obs_vars, slug_vars, front_vars>>

\* Line 127 and pick_existing_image (lines 67-69): any file of the gallery,
\* None when it holds none.
PickExisting ==
    /\ pc = "pick"
    /\ IF DOMAIN imgs = {}
       THEN /\ existing' = None
            /\ picked_before' = None
            /\ pc' = "download"
       ELSE /\ \E p \in DOMAIN imgs : existing' = p /\ picked_before' = imgs[p]
            /\ pc' = "copy"
    /\ Logged("pick")
    /\ UNCHANGED <<world_vars, OPENROUTER_API_KEY, json_error_is_request_exception,
                   title, slug, today, filepath, imgpath, ok, content, i, yaml_front,
                   md, outcome, last_status, only_transport,
                   imgs_before, posts_before, prev, io_vars, slug_vars, front_vars>>

\* Lines 128-138: copy the picked image under the name of the post; when the
\* copy raises, imgpath becomes the .png name and the download follows.
CopyExisting ==
    /\ pc = "copy"
    /\ \E ev \in CopyEventsIn(env) :
          LET dst == PathJoin(IMG_DIR, today \o <<DASH>> \o slug \o PathSuffix(existing))
              r == copy_existing(imgs, existing, dst, ev)
          IN  /\ imgs' = r.store
              /\ img_opened' = img_opened \cup (IF copy_opens(ev) THEN {dst} ELSE {})
              /\ IF r.raised
                 THEN /\ imgpath' = PathJoin(IMG_DIR, today \o <<DASH>> \o slug \o EXT_PNG)
                      /\ pc' = "download_after_copy"
                      /\ Logged("copy_failed")
                 ELSE /\ imgpath' = dst
                      /\ pc' = "text"
                      /\ Logged("copy_ok")
    /\ UNCHANGED <<posts, clock, runs, max_runs, env, OPENROUTER_API_KEY,
                   json_error_is_request_exception, title, slug, today, filepath,
                   existing, ok, content, i, yaml_front, md, outcome, last_status, only_transport,
                   imgs_before, posts_before, picked_before, prev, lacks_field, last_download,
                   slug_vars, front_vars>>

\* Line 139: the download after a failed copy; its result is not looked at.
DownloadAfterCopy ==
    /\ pc = "download_after_copy"
    /\ \E ev \in DownloadEventsIn(env) :
          LET r == download_random_image(imgs, imgpath, ev)
          IN  /\ imgs' = r.store
              /\ last_download' = ev
              /\ img_opened' = img_opened \cup (IF download_opens(ev) THEN {imgpath} ELSE {})
              /\ Logged(IF r.ret THEN "download_ok" ELSE "download_failed")
    /\ pc' = "text"
    /\ UNCHANGED <<posts, clock, runs, max_runs, env, OPENROUTER_API_KEY,
                   json_error_is_request_exception, title, slug, today, filepath,
                   existing, imgpath, ok, content, i, yaml_front, md, outcome, last_status, only_transport,
                   imgs_before, posts_before, picked_before, prev, lacks_field,
                   slug_vars, front_vars>>

\* A download that lost its file: the image is dropped on success.
image_after_download_inverted(ret, dest) == IF ret THEN None ELSE dest

\* Lines 143-145: the image path after the download of the else branch.
image_after_download(ret, dest) == IF ret THEN dest ELSE None

\* Lines 141-145: no image to reuse: download, and leave the image empty when
\* the download fails.
DownloadFresh ==
    /\ pc = "download"
    /\ \E ev \in DownloadEventsIn(env) :
          LET dest == PathJoin(IMG_DIR, today \o <<DASH>> \o slug \o EXT_PNG)
              r == download_random_image(imgs, dest, ev)
          IN  /\ imgs' = r.store
              /\ last_download' = ev
              /\ img_opened' = img_opened \cup (IF download_opens(ev) THEN {dest} ELSE {})
              /\ ok' = r.ret
              /\ imgpath' = image_after_download(r.ret, dest)
              /\ Logged(IF r.ret THEN "download_ok" ELSE "download_failed")
    /\ pc' = "text"
    /\ UNCHANGED <<posts, clock, runs, max_runs, env, OPENROUTER_API_KEY,
                   json_error_is_request_exception, title, slug, today, filepath,
                   existing, content, i, yaml_front, md, outcome, last_status, only_transport,
                   imgs_before, posts_before, picked_before, prev, lacks_field,
                   slug_vars, front_vars>>

\* Lines 155-157: no credential: the local fallback text.
UseLocalFallback ==
    /\ pc = "text"
    /\ ~OPENROUTER_API_KEY
    /\ content' = generate_text_local_fallback(title)
    /\ pc' = "front"
    /\ UNCHANGED <<world_vars, OPENROUTER_API_KEY, json_error_is_request_exception,
                   title, slug, today, filepath, existing, imgpath, ok, i, yaml_front,
                   md, outcome, obs_vars, slug_vars, front_vars>>

\* The text step entered right after topic selection, ahead of the image step.
EnterOpenRouter_before_image ==
    /\ pc = "pick"
    /\ OPENROUTER_API_KEY
    /\ i' = 0
    /\ pc' = "attempt"
    /\ UNCHANGED <<world_vars, OPENROUTER_API_KEY, json_error_is_request_exception,
                   title, slug, today, filepath, existing, imgpath, ok, content,
                   yaml_front, md, outcome, obs_vars, slug_vars, front_vars>>

\* Lines 149-151 and 72-85: with a credential, generate_text_via_openrouter is
\* entered and its loop starts at i = 0.
EnterOpenRouter ==
    /\ pc = "text"
    /\ OPENROUTER_API_KEY
    /\ i' = 0
    /\ pc' = "attempt"
    /\ UNCHANGED <<world_vars, OPENROUTER_API_KEY, json_error_is_request_exception,
                   title, slug, today, filepath, existing, imgpath, ok, content,
                   yaml_front, md, outcome, obs_vars, slug_vars, front_vars>>

\* An except clause that lets the failure through to the caller.
catch_text_failure_reraises(t) ==
    [content |-> None, pc |-> "exit", outcome |-> "raised"]

\* Lines 152-154: create_post catches every exception of
\* generate_text_via_openrouter and takes the fallback text.
catch_text_failure(t) ==
    [content |-> generate_text_local_fallback(t), pc |-> "front", outcome |-> "running"]

\* Lines 86-103: one request and what the loop body makes of its reply.  An
\* exception the loop does not catch leaves generate_text_via_openrouter and
\* is caught by create_post (lines 152-154), which takes the fallback text.
Attempt ==
    /\ pc = "attempt"
    /\ i < attempts
    /\ \E reply \in RepliesIn(env) :
          LET r == attempt(reply, json_error_is_request_exception)
          IN  /\ last_status' = reply.status
              /\ only_transport' = (only_transport /\ reply.exc # "none")
              /\ lacks_field' = LacksChoices(reply)
              /\ CASE r.kind = "return" ->
                        content' = r.text /\ pc' = "front" /\ outcome' = outcome
                   [] r.kind = "error" ->
                        LET c == catch_text_failure(title)
                        IN  content' = c.content /\ pc' = c.pc /\ outcome' = c.outcome
                   [] r.kind = "break" ->
                        content' = content /\ pc' = "failed" /\ outcome' = outcome
                   [] OTHER ->
                        content' = content /\ pc' = "sleep" /\ outcome' = outcome
    /\ Logged("request")
    /\ UNCHANGED <<world_vars, OPENROUTER_API_KEY, json_error_is_request_exception,
                   title, slug, today, filepath, existing, imgpath, ok, i, yaml_front,
                   md, imgs_before, posts_before, picked_before, prev, last_download, img_opened,
                   slug_vars, front_vars>>

\* Line 104 and the loop header: sleep 2**i seconds, then the next i.
Sleep ==
    /\ pc = "sleep"
    /\ i' = i + 1
    /\ pc' = IF i + 1 < attempts THEN "attempt" ELSE "failed"
    /\ Logged("sleep")
    /\ UNCHANGED <<world_vars, OPENROUTER_API_KEY, json_error_is_request_exception,
                   title, slug, today, filepath, existing, imgpath, ok, content,
                   yaml_front, md, outcome, last_status, only_transport,
                   imgs_before, posts_before, picked_before, prev, io_vars,
                   slug_vars, front_vars>>

\* Line 105 and lines 152-154: the RuntimeError after the loop is caught by
\* create_post, which takes the fallback text.
FallBackAfterFailure ==
    /\ pc = "failed"
    /\ LET c == catch_text_failure(title)
       IN  content' = c.content /\ pc' = c.pc /\ outcome' = c.outcome
    /\ UNCHANGED <<world_vars, OPENROUTER_API_KEY, json_error_is_request_exception,
                   title, slug, today, filepath, existing, imgpath, ok, i, yaml_front,
                   md, obs_vars, slug_vars, front_vars>>

\* Lines 160-171: the front matter, with the clock read again, and the document.
BuildDocument ==
    /\ pc = "front"
    /\ LET front == build_yaml_front(title, clock, imgpath)
       IN  /\ yaml_front' = front
           /\ md' = compose_md(front, content)
    /\ pc' = "write"
    /\ UNCHANGED <<world_vars, OPENROUTER_API_KEY, json_error_is_request_exception,
                   title, slug, today, filepath, existing, imgpath, ok, content, i,
                   outcome, obs_vars, slug_vars, front_vars>>

WriteEvents == {"ok", "open_fails", "write_fails"}

WriteEventsIn(e) == IF e = "any" THEN WriteEvents ELSE {"ok"}

\* A post file opened for appending: the new document follows the old one.
write_post_appends(store, path, text, ev) ==
    CASE ev = "open_fails" -> store
      [] ev = "write_fails" -> store
      [] OTHER -> Stored(store, path,
                         (IF path \in DOMAIN store THEN store[path] ELSE <<>>) \o text)

\* open(filepath, "w") truncates the file; f.write(md) fills it.
write_post(store, path, text, ev) ==
    CASE ev = "open_fails" -> store
      [] ev = "write_fails" -> Stored(store, path, <<>>)
      [] OTHER -> Stored(store, path, text)

\* Lines 174-180: write the post; a failure is printed and raised again.
WritePost ==
    /\ pc = "write"
    /\ \E ev \in WriteEventsIn(env) :
          /\ posts' = write_post(posts, filepath, md, ev)
          /\ outcome' = IF ev = "ok" THEN "returned" ELSE "raised"
          /\ Logged(IF ev = "ok" THEN "write_ok" ELSE "write_failed")
    /\ pc' = "exit"
    /\ UNCHANGED <<imgs, clock, runs, max_runs, env, OPENROUTER_API_KEY,
                   json_error_is_request_exception, title, slug, today, filepath,
                   existing, imgpath, ok, content, i, yaml_front, md, last_status, only_transport,
                   imgs_before, posts_before, picked_before, prev, io_vars,
                   slug_vars, front_vars>>

\* Time passes: midnight UTC.  The program reads the clock at line 122 and at
\* line 163 only, so midnight is let pass between two runs and, in the "any"
\* environment, between the two reads of one run, once image and text
\* acquisition are over.
Tick ==
    /\ \/ pc = "exit" /\ runs < max_runs
       \/ pc = "front" /\ env = "any"
    /\ clock < MaxDay
    /\ clock' = clock + 1
    /\ UNCHANGED <<posts, imgs, runs, max_runs, env, run_vars, obs_vars, slug_vars, front_vars>>

\* Before the first run: no post yet, the gallery empty or seeded.
Start ==
    /\ posts = <<>>
    /\ imgs \in InitialStores
    /\ clock = 1
    /\ runs = 0
    /\ pc = "idle"
    /\ OPENROUTER_API_KEY = FALSE
    /\ json_error_is_request_exception = FALSE
    /\ title = None /\ slug = None /\ today = None /\ filepath = None
    /\ existing = None /\ imgpath = None /\ ok = None
    /\ content = None /\ i = 0 /\ yaml_front = None /\ md = None
    /\ outcome = "none"
    /\ log = <<>> /\ last_status = NoStatus /\ only_transport = TRUE
    /\ imgs_before = imgs /\ posts_before = posts /\ picked_before = None
    /\ lacks_field = FALSE /\ last_download = NoDownload /\ img_opened = {}
    /\ prev = [title |-> None, today |-> None, filepath |-> None, outcome |-> "none"]
    /\ s_title = <<>> /\ s_maxlen = 0 /\ s_once = <<>> /\ s_twice = <<>>
    /\ s_pc = "unused"
    /\ f_title = <<>> /\ f_now = 1 /\ f_image = None /\ f_front = None
    /\ f_pc = "unused"

\* One invocation of the script, in any environment.
Init == Start /\ max_runs = 1 /\ env = "any"

\* Up to MaxRuns invocations on the same stores, in the calm environment.
RerunInit == Start /\ max_runs = MaxRuns /\ env = "calm"

Next ==
    \/ StartRun
    \/ EnsureDirs
    \/ SelectTopic
    \/ PickExisting
    \/ CopyExisting
    \/ DownloadAfterCopy
    \/ DownloadFresh
    \/ UseLocalFallback
    \/ EnterOpenRouter
    \/ Attempt
    \/ Sleep
    \/ FallBackAfterFailure
    \/ BuildDocument
    \/ WritePost
    \/ Tick

Spec == Init /\ [][Next]_vars

RerunSpec == RerunInit /\ [][Next]_vars

-----------------------------------------------------------------------------
(* slugify on arbitrary titles.                                            *)

\* The characters titles are made of: 'a', 'A', ' ', '-', '!', capital Cyrillic 'Ya'.
TitleAlphabet == {97, 65, 32, 45, 33, 1071}

RECURSIVE StringsUpTo(_)
StringsUpTo(n) ==
    IF n = 0 THEN {<<>>}
    ELSE LET shorter == StringsUpTo(n - 1)
         IN  shorter \cup {Append(s, c) : s \in shorter, c \in TitleAlphabet}

\* A run of n letters 'a'.
Letters(n) == [k \in 1..n |-> 97]

\* Short titles, and the same titles behind a run of letters that ends just
\* before the default maxlen.
SlugTitles ==
    LET short == StringsUpTo(MaxTitleLen)
    IN  short \cup {Letters(DefaultMaxLen - 1) \o s : s \in short}

SlugMaxLens == (1..MaxTitleLen) \cup {DefaultMaxLen}

SlugInit ==
    /\ posts = <<>> /\ imgs = <<>> /\ clock = 1 /\ runs = 0
    /\ max_runs = 0 /\ env = "any"
    /\ pc = "idle"
    /\ OPENROUTER_API_KEY = FALSE
    /\ json_error_is_request_exception = FALSE
    /\ title = None /\ slug = None /\ today = None /\ filepath = None
    /\ existing = None /\ imgpath = None /\ ok = None
    /\ content = None /\ i = 0 /\ yaml_front = None /\ md = None
    /\ outcome = "running"
    /\ log = <<>> /\ last_status = NoStatus /\ only_transport = TRUE
    /\ imgs_before = imgs /\ posts_before = posts /\ picked_before = None
    /\ lacks_field = FALSE /\ last_download = NoDownload /\ img_opened = {}
    /\ prev = [title |-> None, today |-> None, filepath |-> None, outcome |-> "none"]
    /\ s_title \in SlugTitles
    /\ s_maxlen \in SlugMaxLens
    /\ s_once = <<>> /\ s_twice = <<>>
    /\ s_pc = "title"
    /\ f_title = <<>> /\ f_now = 1 /\ f_image = None /\ f_front = None
    /\ f_pc = "unused"

\* token := slugify(title, maxlen)
Slugify ==
    /\ s_pc = "title"
    /\ s_once' = slugify(s_title, s_maxlen)
    /\ s_pc' = "once"
    /\ UNCHANGED <<world_vars, run_vars, obs_vars, s_title, s_maxlen, s_twice, front_vars>>

\* token2 := slugify(token, maxlen)
SlugifyAgain ==
    /\ s_pc = "once"
    /\ s_twice' = slugify(s_once, s_maxlen)
    /\ s_pc' = "twice"
    /\ UNCHANGED <<world_vars, run_vars, obs_vars, s_title, s_maxlen, s_once, front_vars>>

SlugNext == Slugify \/ SlugifyAgain

SlugSpec == SlugInit /\ [][SlugNext]_vars

-----------------------------------------------------------------------------
(* The front matter (lines 160-168) on arbitrary titles.                   *)

BACKSLASH == 92

\* The characters these titles are made of: 'a', '"', the backslash.
FrontAlphabet == {97, QUOTE, BACKSLASH}

RECURSIVE FrontStringsUpTo(_)
FrontStringsUpTo(n) ==
    IF n = 0 THEN {<<>>}
    ELSE LET shorter == FrontStringsUpTo(n - 1)
         IN  shorter \cup {Append(t, c) : t \in shorter, c \in FrontAlphabet}

FrontTitles == FrontStringsUpTo(MaxTitleLen)

\* The values of imgpath at line 166: None, or a path in the gallery.
FrontImages == {None, SEED_IMAGE}

FrontInit ==
    /\ posts = <<>> /\ imgs = <<>> /\ clock = 1 /\ runs = 0
    /\ max_runs = 0 /\ env = "any"
    /\ pc = "idle"
    /\ OPENROUTER_API_KEY = FALSE
    /\ json_error_is_request_exception = FALSE
    /\ title = None /\ slug = None /\ today = None /\ filepath = None
    /\ existing = None /\ imgpath = None /\ ok = None
    /\ content = None /\ i = 0 /\ yaml_front = None /\ md = None
    /\ outcome = "running"
    /\ log = <<>> /\ last_status = NoStatus /\ only_transport = TRUE
    /\ imgs_before = imgs /\ posts_before = posts /\ picked_before = None
    /\ lacks_field = FALSE /\ last_download = NoDownload /\ img_opened = {}
    /\ prev = [title |-> None, today |-> None, filepath |-> None, outcome |-> "none"]
    /\ s_title = <<>> /\ s_maxlen = 0 /\ s_once = <<>> /\ s_twice = <<>>
    /\ s_pc = "unused"
    /\ f_title \in FrontTitles
    /\ f_now \in 1..MaxDay
    /\ f_image \in FrontImages
    /\ f_front = None
    /\ f_pc = "title"

\* Lines 160-168 for the title, the clock reading and the image path.
BuildFront ==
    /\ f_pc = "title"
    /\ f_front' = build_yaml_front(f_title, f_now, f_image)
    /\ f_pc' = "built"
    /\ UNCHANGED <<world_vars, run_vars, obs_vars, slug_vars, f_title, f_now, f_image>>

FrontNext == BuildFront

FrontSpec == FrontInit /\ [][FrontNext]_vars

-----------------------------------------------------------------------------
(* What a state shows of the run in progress.                              *)

Has(ev) == \E k \in DOMAIN log : log[k] = ev
Count(ev) == Cardinality({k \in DOMAIN log : log[k] = ev})

WriteTried == Has("write_ok") \/ Has("write_failed")
\* The image step, the text step, the document are over.
ImageStepDone == Has("pick") /\ pc \notin {"copy", "download", "download_after_copy"}
TextDone == pc \in {"front", "write"} \/ (pc = "exit" /\ WriteTried)
DocumentBuilt == pc = "write" \/ (pc = "exit" /\ WriteTried)
\* create_post returned: the post was written.
Returned == pc = "exit" /\ outcome = "returned"

EndsWith(s, tail) ==
    Len(s) >= Len(tail) /\ SubSeq(s, Len(s) - Len(tail) + 1, Len(s)) = tail

\* 'image:'
IMAGE_FIELD == <<105, 109, 97, 103, 101, 58>>
HasImageKey(front) == \E k \in DOMAIN front : StartsWith(front[k], IMAGE_FIELD)

-----------------------------------------------------------------------------
(* Claims.                                                                 *)

\* C1: whatever the text collaborator, the copy and the download do, a run
\* takes a bounded number of steps (the retry loop is at its head only
\* within its bound, and the run performs at most 2 * attempts + 5
\* operations), and it exits having written the post file, unless creating
\* the directories or writing the post failed: then, and only then, it
\* exits with the exception.
C1_RunEndsWithPostWritten ==
    /\ pc = "attempt" => i < attempts
    /\ i <= attempts /\ Len(log) <= 2 * attempts + 5
    /\ pc = "exit" =>
          IF Has("mkdirs_failed") \/ Has("write_failed")
          THEN outcome = "raised"
          ELSE /\ outcome = "returned"
               /\ log[Len(log)] = "write_ok"
               /\ filepath \in DOMAIN posts
               /\ posts[filepath] = md

\* A run in which the copy failed, the download failed and three requests
\* were made, and which wrote its post all the same.
C1_Witness ==
    /\ Returned
    /\ Has("copy_failed") /\ Has("download_failed") /\ Count("request") = 3
    /\ posts[filepath] = md

\* C2: with a credential and every request ending in a transport failure, the
\* run makes exactly 3 requests, never a fourth, and the body of the post is
\* the local fallback text.
C2_TransportFailuresThreeAttempts ==
    (OPENROUTER_API_KEY /\ only_transport) =>
        /\ Count("request") <= 3
        /\ TextDone =>
              /\ Count("request") = 3
              /\ content = generate_text_local_fallback(title)
              /\ DocumentBuilt => EndsWith(md, content \o <<NEWLINE>>)
              /\ Returned => posts[filepath] = md

C2_Witness ==
    /\ Returned /\ OPENROUTER_API_KEY /\ only_transport
    /\ Count("request") = 3 /\ last_status = TRANSPORT_FAILURE

\* This step issues a request.
RequestIssued == Len(log') = Len(log) + 1 /\ log'[Len(log) + 1] = "request"

\* C3: once the text collaborator has answered with status 401, 402 or 429,
\* the run issues no further request, and the body is the local fallback text.
C3_NoRequestAfterNonRetryable ==
    /\ [][(last_status \in NonRetryable) => ~RequestIssued]_vars
    /\ [](last_status \in NonRetryable /\ TextDone =>
            content = generate_text_local_fallback(title))

\* C4: the body of every written post is non-empty.
C4_BodyNeverEmpty == Returned => content # <<>>

\* C5: the copy of an existing image is tried first, whenever the gallery
\* holds one; the download is attempted only right after the pick found the
\* gallery empty or right after the copy failed; and the image is left empty
\* only after a download failed.
C5_ImageStrategiesInOrder ==
    /\ \A k \in DOMAIN log :
          /\ log[k] \in {"download_ok", "download_failed"} =>
                /\ k > 1
                /\ \/ log[k - 1] = "pick" /\ DOMAIN imgs_before = {}
                   \/ log[k - 1] = "copy_failed"
          /\ log[k] \in {"copy_ok", "copy_failed"} =>
                k > 1 /\ log[k - 1] = "pick" /\ DOMAIN imgs_before # {}
    /\ ImageStepDone /\ DOMAIN imgs_before # {} => Has("copy_ok") \/ Has("copy_failed")
    /\ ImageStepDone /\ imgpath = None => Has("download_failed")

\* The copy of the picked image failed and the download was attempted next.
C5_Witness ==
    \E k \in DOMAIN log :
        /\ k < Len(log)
        /\ log[k] = "copy_failed"
        /\ log[k + 1] \in {"download_ok", "download_failed"}
        /\ Returned

\* C6: when the download failed (after no image to reuse, or after a failed
\* copy), the image is empty and the front matter has no image key.
C6_NoImageKeyWhenBothFail ==
    Has("download_failed") /\ ImageStepDone =>
        /\ imgpath = None
        /\ DocumentBuilt => ~HasImageKey(yaml_front)

\* C7: right after the copy, the picked source image holds what it held when
\* it was picked.
C7_SourceImageUnchanged ==
    (log # <<>> /\ log[Len(log)] \in {"copy_ok", "copy_failed"}) =>
        existing \in DOMAIN imgs /\ imgs[existing] = picked_before

\* C8: when a run follows a run with the same topic on the same date, both
\* compute the same file name, the second write adds no file, the store holds
\* exactly one file for that date and slug, that file is exactly the second
\* run's document, and every other file is as it was.
C8_RerunOverwrites ==
    (/\ Returned
     /\ prev.outcome = "returned"
     /\ prev.title = title
     /\ prev.today = today) =>
        /\ filepath = prev.filepath
        /\ filepath \in DOMAIN posts_before
        /\ DOMAIN posts = DOMAIN posts_before
        /\ posts[filepath] = md
        /\ {p \in DOMAIN posts :
              StartsWith(PathName(p), today \o <<DASH>> \o slug)} = {filepath}
        /\ \A p \in DOMAIN posts \ {filepath} : posts[p] = posts_before[p]

\* The second run wrote a document that differs from the first run's.
C8_Witness ==
    /\ Returned
    /\ prev.outcome = "returned" /\ prev.title = title /\ prev.today = today
    /\ posts_before[filepath] # md
    /\ posts[filepath] = md

\* C9: slugify(slugify(title)) = slugify(title), for every title and maxlen.
C9_SlugifyIdempotent == s_pc = "twice" => s_twice = s_once

\* C10: without a credential the run issues no request, and the body of the
\* post is the local fallback text for the topic, which is non-empty and
\* contains the topic verbatim.
C10_NoCredentialUsesFallback ==
    ~OPENROUTER_API_KEY =>
        /\ ~Has("request") /\ last_status = NoStatus
        /\ TextDone =>
              /\ content = generate_text_local_fallback(title)
              /\ content # <<>>
              /\ Contains(content, title)
              /\ DocumentBuilt => EndsWith(md, content \o <<NEWLINE>>)
              /\ Returned => posts[filepath] = md

C10_Witness ==
    /\ Returned /\ ~OPENROUTER_API_KEY
    /\ EndsWith(posts[filepath], generate_text_local_fallback(title) \o <<NEWLINE>>)

\* C11: every written post file is the front-matter block (opening fence,
\* fields, closing fence line), then a blank line, then the article body.
C11_BlankLineBeforeBody ==
    Returned =>
        StartsWith(posts[filepath],
                   join(<<NEWLINE>>, yaml_front) \o <<NEWLINE>> \o content)

\* What a parser of double-quoted values makes of the characters that follow
\* the opening quote: the value up to the closing quote, which must end the
\* line; a backslash escapes the next character ('\"' is a quote, '\\' a
\* backslash, '\a' the bell character).
RECURSIVE ReadQuoted(_)
ReadQuoted(s) ==
    LET bad == [ok |-> FALSE, value |-> <<>>]
    IN  IF s = <<>> THEN bad
        ELSE IF Head(s) = QUOTE
             THEN (IF Tail(s) = <<>> THEN [ok |-> TRUE, value |-> <<>>] ELSE bad)
        ELSE IF Head(s) = BACKSLASH
             THEN IF Len(s) < 2 THEN bad
                  ELSE LET r == ReadQuoted(Tail(Tail(s)))
                           c == IF s[2] = 97 THEN 7 ELSE s[2]
                       IN  [ok |-> r.ok, value |-> <<c>> \o r.value]
        ELSE LET r == ReadQuoted(Tail(s))
             IN  [ok |-> r.ok, value |-> <<Head(s)>> \o r.value]

\* 'title:', 'date:', 'draft:'
TITLE_FIELD == <<116, 105, 116, 108, 101, 58>>
DATE_FIELD == <<100, 97, 116, 101, 58>>
DRAFT_FIELD == <<100, 114, 97, 102, 116, 58>>

\* C12: for every title, also one holding double quotes or backslashes, the
\* title line of the front matter is one well-formed double-quoted value that
\* reads back as the title, and the fields come in the order title, date,
\* draft, image between the two fences.
C12_TitleRoundTrips ==
    f_pc = "built" =>
        /\ StartsWith(f_front[2], TITLE_KEY)
        /\ LET r == ReadQuoted(SubSeq(f_front[2], Len(TITLE_KEY) + 1, Len(f_front[2])))
           IN  r.ok /\ r.value = f_title
        /\ f_front[1] = FENCE
        /\ StartsWith(f_front[2], TITLE_FIELD)
        /\ StartsWith(f_front[3], DATE_FIELD)
        /\ StartsWith(f_front[4], DRAFT_FIELD)
        /\ Len(f_front) = (IF f_image = None THEN 5 ELSE 6)
        /\ f_image # None => StartsWith(f_front[5], IMAGE_FIELD)
        /\ f_front[Len(f_front)] = FENCE_NL

\* C13: when the latest reply was a 200 without the "choices" field (or with
\* an empty list), the provider neither sleeps nor issues another request
\* after it, and the body of the post is the local fallback text.
C13_MalformedSuccessShortCircuits ==
    lacks_field =>
        /\ pc \notin {"sleep", "attempt"}
        /\ \A k \in DOMAIN log :
              log[k] = "sleep" => \E j \in DOMAIN log : j > k /\ log[j] = "request"
        /\ TextDone => content = generate_text_local_fallback(title)

\* C14: when no image could be reused and the image collaborator answered the
\* download with a non-success status or with an empty body, the download
\* reports failure and no image is recorded for the post.
C14_ErrorStatusAndEmptyBodyFail ==
    (/\ ImageStepDone
     /\ existing = None
     /\ \/ last_download.kind = "error_status"
        \/ last_download.kind = "ok" /\ last_download.body = <<>>) =>
        /\ Has("download_failed") /\ ~Has("download_ok")
        /\ ok = FALSE
        /\ imgpath = None
        /\ DocumentBuilt => ~HasImageKey(yaml_front)

\* The operations of the image step and of the text step, as the log names them.
ImageOps == {"pick", "copy_ok", "copy_failed", "download_ok", "download_failed"}
TextOps == {"request", "sleep"}
WriteOps == {"write_ok", "write_failed"}

\* C15 as stated: no image-acquisition operation (picking, copying or
\* downloading an image) happens before text acquisition has completed.
C15_TextBeforeImage ==
    (\E k \in DOMAIN log : log[k] \in ImageOps) => content # None

\* C15 amended: the steps of a run occur in the order topic selection, image
\* acquisition, text acquisition, post write: no image operation before the
\* topic is selected, no request, sleep or body before image acquisition has
\* completed, and the write after all of them.
C15_ImageBeforeText ==
    /\ (\E k \in DOMAIN log : log[k] \in ImageOps) => title # None
    /\ (content # None \/ Has("request")) => ImageStepDone
    /\ \A j, k \in DOMAIN log :
          /\ (log[j] \in ImageOps /\ log[k] \in TextOps) => j < k
          /\ (log[j] \in ImageOps \cup TextOps /\ log[k] \in WriteOps) => j < k
    /\ WriteTried => (content # None /\ ImageStepDone /\ log[Len(log)] \in WriteOps)

\* A run that downloaded an image, then requested its text, then wrote the post.
C15_Witness ==
    /\ Returned
    /\ \E j, k \in DOMAIN log :
          j < k /\ log[j] = "download_ok" /\ log[k] = "request" /\ k < Len(log)

\* C16: for every title and every maxlen, the result of slugify neither
\* begins nor ends with the separator '-'.
C16_NoSeparatorAtEnds ==
    (s_pc \in {"once", "twice"} /\ s_once # <<>>) =>
        (s_once[1] # DASH /\ s_once[Len(s_once)] # DASH)

\* C17: a run opens at most one file of the gallery for writing, whichever
\* image strategies it attempts and whichever fail, and it writes the posts
\* directory exactly once: at most one write attempt in all, and one
\* successful write in a run that returns.
C17_OneImageFileOnePostWrite ==
    /\ Cardinality(img_opened) <= 1
    /\ Count("write_ok") + Count("write_failed") <= 1
    /\ Returned => Count("write_ok") = 1

\* C18: every backoff sleep is followed by another request: when the latest
\* operation of the run is a sleep, the provider is about to issue the next
\* request, within its bound of attempts; it never sleeps after its final
\* attempt.
C18_SleepOnlyBetweenAttempts ==
    (log # <<>> /\ log[Len(log)] = "sleep") => (pc = "attempt" /\ i < attempts)

\* C19: the calendar date in the name of the post file equals the date part
\* of the date field of its front matter, also when midnight UTC passes
\* between the two clock reads of the run.
C19_FilenameDateIsFrontMatterDate ==
    DocumentBuilt =>
        /\ StartsWith(PathName(filepath), today)
        /\ StartsWith(yaml_front[3], DATE_KEY \o today)

\* C20: when a run fails because the post file cannot be written, the asset
\* store is as it was before the run: the run has created or overwritten no
\* image file.
C20_FailedWriteLeavesAssetsUntouched ==
    (pc = "exit" /\ Has("write_failed")) => imgs = imgs_before

====
